---------------------------- MODULE Spec2Model ----------------------------
(***************************************************************************)
(* The real-time joint stream client of the dashboard: the React hook      *)
(* useRealTimeJoints (health probe, WebSocket, reconnect timer), driven by *)
(* its owner's enabled flag and by the browser's events.                   *)
(*                                                                         *)
(* One connection attempt is one call of connectWebSocket that passes its  *)
(* enabled guard: it issues a health probe and, when the probe succeeds,   *)
(* creates a socket.  Attempt i owns probe i and socket i.                 *)
(***************************************************************************)
EXTENDS Integers, FiniteSets, Sequences, TLC

\* ------------------------------------------------------------------ bounds
\* Connection attempts (probes, and so sockets) one behaviour may start.
MaxAttempts == 3
\* Reconnect timers one behaviour may schedule.
MaxTimers == 2
\* Entries of the joints object of one frame.
MaxJoints == 2
\* Presses of Connect in the WebSocketTest component.
MaxConnects == 2

\* --------------------------------------------------------------- constants
\* The close code of a normal closure (onclose, "event.code !== 1000").
NormalClosure == 1000
\* The close code of a failed connection (onclose, "event.code === 1006").
AbnormalClosure == 1006
\* The reconnect delay in ms (setTimeout(..., 3000)).
ReconnectDelay == 3000

\* A useRef holding null.
Null == 0

Ids == 1..MaxAttempts
TimerIds == 1..MaxTimers
TestIds == 1..MaxConnects

\* Codes of a close the two ends complete without a transport failure: the
\* normal closure, and 1005 ("no status"), which stands for every other code
\* such a close carries (it is what a close() without arguments yields).
CleanCodes == {NormalClosure, 1005}
CloseCodes == CleanCodes \cup {AbnormalClosure}

\* How the fetch of /health can end: a response with a success status and a
\* JSON body, a response with another status, a rejection (server not
\* reachable), or a success status with a body that is not JSON.
ProbeOutcomes == {"ok", "status", "rejected", "badbody"}

\* The websocketUrl prop: a URL the WebSocket constructor accepts, or one for
\* which it throws (a SyntaxError for a malformed URL or a foreign scheme, a
\* SecurityError for an insecure URL on a secure page).
Urls == {"accepted", "rejected"}

\* Joint names a frame may carry, and the ones for which the viewer's
\* setJointValue throws; the others are joints of the displayed robot.
JointNames == {"pan", "lift", "ghost"}
ThrowingJoints == {"ghost"}
RobotJoints == JointNames \ ThrowingJoints
\* Joint values a frame may carry (0 stands for a joint never set).
JointValues == {1, 2}

\* The joints objects: Object.entries order, every name at most once.
RECURSIVE Entries(_)
Entries(n) ==
  IF n = 0 THEN {<<>>}
  ELSE {Append(e, <<name, value>>) :
          e \in Entries(n - 1),
          name \in JointNames, value \in JointValues}
Distinct(e) == \A i, j \in 1..Len(e) : i # j => e[i][1] # e[j][1]
JointMaps == {e \in UNION {Entries(n) : n \in 0..MaxJoints} : Distinct(e)}

\* Timestamps a frame may carry (0: the timestamp of the frames whose
\* timestamp is of no interest; the handler never reads the field).
Stamps == {1, 2}

\* What event.data of a message event can be: text JSON.parse rejects, or an
\* object with a type, a timestamp ts and a joints field: a truthy object
\* (has), or null (nul) or no field at all.  A frame of another type than
\* "joint_update" carries at most one joint here.
NoFrame ==
  [kind |-> "none", type |-> "", has |-> FALSE, nul |-> FALSE, joints |-> <<>>,
   ts |-> 0]
Frames ==
  {[NoFrame EXCEPT !.kind = "garbage"]}
    \cup {[NoFrame EXCEPT !.kind = "json", !.type = t, !.nul = n] :
             t \in {"joint_update", "status"}, n \in BOOLEAN}
    \cup {[NoFrame EXCEPT !.kind = "json", !.type = "joint_update",
                          !.has = TRUE, !.joints = j] : j \in JointMaps}
    \cup {[NoFrame EXCEPT !.kind = "json", !.type = "status",
                          !.has = TRUE, !.joints = j] :
             j \in {m \in JointMaps : Len(m) <= 1}}

\* The joint updates a server that the viewer understands sends: every joint
\* is one of the robot's, and the frames carry timestamps in any order.
StampedFrames ==
  {[NoFrame EXCEPT !.kind = "json", !.type = "joint_update", !.has = TRUE,
                   !.joints = j, !.ts = t] :
     j \in {m \in JointMaps : \A k \in 1..Len(m) : m[k][1] \in RobotJoints},
     t \in Stamps}

\* What viewerRef.current can be: null, an element without a setJointValue
\* function, or a viewer ready to be driven.
ViewerStates == {"absent", "nofn", "ready"}
NoPose == [j \in RobotJoints |-> 0]

VARIABLES
  test,                 \* the WebSocketTest component (a client of its own)
  websocketUrl,         \* the websocketUrl prop (one of Urls)
  phase,                \* "init" (rendered, effect not run), "mounted", "unmounted"
  enabled,              \* the enabled prop of the latest render
  wsRef,                \* wsRef.current: Null or a socket
  reconnectTimeoutRef,  \* reconnectTimeoutRef.current: Null or a timer id
  isConnectedRef,       \* isConnectedRef.current
  isConnected,          \* the isConnected value the latest render returned
  probes,               \* the health probes, by attempt
  sockets,              \* the WebSocket objects, by attempt
  timers,               \* the browser's timers created by setTimeout
  dispatching,          \* socket whose error event was fired and whose close
                        \* event the same browser task fires next (Null: none)
  viewer,               \* viewerRef.current (st) and the pose it displays
  heard,                \* history, by socket: the latest frame of the socket
                        \* that was not applied in full ("badjson",
                        \* "noviewer", "threw"), "none" if there is none
  newest,               \* history: the greatest timestamp of the frames
                        \* delivered since the last close event
  stopped,              \* history: disconnect() ran and the owner has not
                        \* started a connection sequence since
  last                  \* history: the operation that led to this state
                        \* (for a close: the socket, its code, whether the
                        \* socket had reached OPEN, whether it was OPEN
                        \* until this close, that is, the server closed it,
                        \* and whether reconnectTimeoutRef held a timer id
                        \* when the handler ran; for an open: whether
                        \* reconnectTimeoutRef held a pending timer when
                        \* the handler ran; for a message: the
                        \* frame, the setJointValue calls made and whether
                        \* the viewer's pose changed)

vars == <<test, websocketUrl, phase, enabled, wsRef, reconnectTimeoutRef,
          isConnectedRef, isConnected,
          probes, sockets, timers, dispatching, viewer, heard, newest,
          stopped, last>>

\* A probe: st is "none" (not issued), "inflight", "ok" or "failed"; en is the
\* enabled value captured by the connectWebSocket closure that issued it; by
\* is the timer whose callback issued it (Null: the owner did); cancelled
\* (history) says disconnect() ran while it was in flight.
NoProbe == [st |-> "none", en |-> FALSE, by |-> Null, cancelled |-> FALSE]
\* A socket: st is "none" or its readyState; opened says it reached OPEN.
NoSocket == [st |-> "none", opened |-> FALSE]
\* A timer: st is "none", "pending", "fired" or "cleared"; en is the enabled
\* value its callback's connectWebSocket captured; hit (history) says
\* disconnect() ran while it was pending.
NoTimer == [st |-> "none", en |-> FALSE, hit |-> FALSE]

\* The hook's mutable state as one value, so that calls compose.
Cur ==
  [wsRef |-> wsRef, reconnectTimeoutRef |-> reconnectTimeoutRef,
   isConnectedRef |-> isConnectedRef, isConnected |-> isConnected,
   probes |-> probes, sockets |-> sockets,
   timers |-> timers, stopped |-> stopped]

Set(c) ==
  /\ wsRef' = c.wsRef
  /\ reconnectTimeoutRef' = c.reconnectTimeoutRef
  /\ isConnectedRef' = c.isConnectedRef
  /\ isConnected' = c.isConnected
  /\ probes' = c.probes
  /\ sockets' = c.sockets
  /\ timers' = c.timers
  /\ stopped' = c.stopped

\* The WebSocketTest component after its first render: ws and isConnected
\* are its React state, shown is what the latest committed render saw of
\* them (the buttons and the effect's cleanup use these values), fetches and
\* sockets are the health requests and the sockets of its connect() calls.
TestInit ==
  [phase |-> "mounted", ws |-> Null, isConnected |-> FALSE,
   shown |-> [ws |-> Null, isConnected |-> FALSE],
   fetches |-> [i \in TestIds |-> "none"],
   sockets |-> [i \in TestIds |-> [st |-> "none"]]]

Init ==
  /\ test = TestInit
  /\ websocketUrl \in Urls
  /\ phase = "init"
  /\ enabled \in BOOLEAN
  /\ wsRef = Null
  /\ reconnectTimeoutRef = Null
  /\ isConnectedRef = FALSE
  /\ isConnected = FALSE
  /\ probes = [i \in Ids |-> NoProbe]
  /\ sockets = [i \in Ids |-> NoSocket]
  /\ timers = [t \in TimerIds |-> NoTimer]
  /\ dispatching = Null
  /\ viewer = [st |-> "absent", pose |-> NoPose]
  /\ heard = [i \in Ids |-> "none"]
  /\ newest = 0
  /\ stopped = FALSE
  /\ last = [op |-> "init", id |-> Null, code |-> 0, wasOpen |-> FALSE,
             byServer |-> FALSE, refHeld |-> FALSE, frame |-> NoFrame,
             calls |-> <<>>, changed |-> FALSE]


\* ----------------------------------------------------------- browser model
LiveStates == {"CONNECTING", "OPEN"}

\* clearTimeout(t): a pending timer is cancelled; any other id is ignored.
clearTimeout(ts, t) ==
  IF ts[t].st = "pending" THEN [ts EXCEPT ![t].st = "cleared"] ELSE ts

\* WebSocket.close(): a connecting or open socket starts closing; a closing
\* or closed one is left alone.  The close event comes later.
close(ss, s) ==
  IF ss[s].st \in LiveStates THEN [ss EXCEPT ![s].st = "CLOSING"] ELSE ss

\* testServerConnection() judging by the status alone, without reading the
\* body.
testServerConnectionStatusOnly(outcome) == outcome \in {"ok", "badbody"}

\* testServerConnection(): true only for a response that is ok and whose body
\* parses; every other outcome is logged and yields false.
testServerConnection(outcome) == outcome = "ok"

\* The attempt the next connectWebSocket call uses (MaxAttempts + 1: none left).
NextId(c) ==
  IF \E i \in Ids : c.probes[i].st = "none"
  THEN CHOOSE i \in Ids : /\ c.probes[i].st = "none"
                          /\ \A j \in Ids : c.probes[j].st = "none" => i <= j
  ELSE MaxAttempts + 1

\* The id the next setTimeout returns (MaxTimers + 1: none left).
NextTimer(c) ==
  IF \E t \in TimerIds : c.timers[t].st = "none"
  THEN CHOOSE t \in TimerIds : /\ c.timers[t].st = "none"
                               /\ \A u \in TimerIds : c.timers[u].st = "none" => t <= u
  ELSE MaxTimers + 1

\* ------------------------------------------------ the WebSocketTest component
\* setIsConnected / setWs: a state update of an unmounted component is dropped.
setState(t, connected, ws) ==
  IF t.phase = "mounted" THEN [t EXCEPT !.isConnected = connected, !.ws = ws]
  ELSE t

\* connect(): the health request i starts.
testConnect(t, i) == [t EXCEPT !.fetches[i] = "inflight"]

\* The health request i settles: with a JSON body the socket is created
\* (nothing stores it yet), otherwise the catch reports the failure.
testFetchSettled(t, i, json) ==
  IF json THEN [t EXCEPT !.fetches[i] = "done", !.sockets[i].st = "CONNECTING"]
  ELSE [t EXCEPT !.fetches[i] = "failed"]

\* websocket.onopen of socket i.
testOnopen(t, i) == setState(t, TRUE, i)

\* websocket.onclose of socket i.
testOnclose(t, i) == setState(t, FALSE, Null)

\* The cleanup of the effect of the latest committed render: it closes the
\* socket that render saw in ws.
testCleanup(t) ==
  IF t.shown.ws # Null
  THEN [t EXCEPT !.sockets = close(t.sockets, t.shown.ws)]
  ELSE t

\* disconnect() of the latest committed render.
testDisconnect(t) == testCleanup(t)

\* React commits a render with the current state: when ws changed, the
\* previous effect's cleanup runs.
testCommit(t) ==
  LET t1 == IF t.shown.ws # t.ws THEN testCleanup(t) ELSE t
  IN  [t1 EXCEPT !.shown = [ws |-> t.ws, isConnected |-> t.isConnected]]

\* ------------------------------------------------------------ the hook
\* connectWebSocket opening the socket at once, with the probe still in flight.
connectWebSocketNoProbe(c, en, by) ==
  IF ~en THEN c
  ELSE [c EXCEPT !.probes[NextId(c)] =
                   [st |-> "inflight", en |-> en, by |-> by, cancelled |-> FALSE],
                 !.sockets[NextId(c)] = [st |-> "CONNECTING", opened |-> FALSE],
                 !.wsRef = NextId(c)]

\* connectWebSocket of a render whose enabled prop was en, called by the owner
\* (by = Null) or by the callback of timer by: nothing when en is false, else
\* the health probe is issued (the fetch starts; its continuation runs later).
connectWebSocket(c, en, by) ==
  IF ~en THEN c
  ELSE [c EXCEPT !.probes[NextId(c)] =
          [st |-> "inflight", en |-> en, by |-> by, cancelled |-> FALSE]]

\* The continuation of testServerConnection() without the serverAvailable
\* test: the socket is created whatever the probe said.
probeContinuationUnchecked(c, p, serverAvailable, url) ==
  [c EXCEPT !.probes[p].st = IF serverAvailable THEN "ok" ELSE "failed",
            !.sockets[p] = [st |-> "CONNECTING", opened |-> FALSE],
            !.wsRef = p]

\* The continuation of testServerConnection() answering a throwing
\* constructor with a reconnect.
probeContinuationRetry(c, p, serverAvailable, url) ==
  IF ~serverAvailable THEN [c EXCEPT !.probes[p].st = "failed"]
  ELSE IF url = "rejected"
  THEN [c EXCEPT !.probes[p].st = "ok",
                 !.timers[NextTimer(c)] =
                    [st |-> "pending", en |-> c.probes[p].en, hit |-> FALSE],
                 !.reconnectTimeoutRef = NextTimer(c)]
  ELSE [c EXCEPT !.probes[p].st = "ok",
                 !.sockets[p] = [st |-> "CONNECTING", opened |-> FALSE],
                 !.wsRef = p]

\* The continuation of testServerConnection() of attempt p: a failed probe
\* ends the attempt; a successful one creates the socket for url and stores
\* it, unless the constructor throws: the catch logs, and nothing is stored.
probeContinuation(c, p, serverAvailable, url) ==
  IF ~serverAvailable THEN [c EXCEPT !.probes[p].st = "failed"]
  ELSE IF url = "rejected" THEN [c EXCEPT !.probes[p].st = "ok"]
  ELSE [c EXCEPT !.probes[p].st = "ok",
                 !.sockets[p] = [st |-> "CONNECTING", opened |-> FALSE],
                 !.wsRef = p]

\* ws.onopen with the flag kept in the rendered state rather than in a ref:
\* the owner sees the new value at once.
onopenPublishes(c) ==
  LET c1 == [c EXCEPT !.isConnectedRef = TRUE, !.isConnected = TRUE]
  IN  IF c1.reconnectTimeoutRef # Null
      THEN [c1 EXCEPT !.timers = clearTimeout(c1.timers, c1.reconnectTimeoutRef),
                      !.reconnectTimeoutRef = Null]
      ELSE c1

\* ws.onopen without the defensive clear of the reconnect timer.
onopenNoClear(c) == [c EXCEPT !.isConnectedRef = TRUE]

\* ws.onopen.
onopen(c) ==
  LET c1 == [c EXCEPT !.isConnectedRef = TRUE]
  IN  IF c1.reconnectTimeoutRef # Null
      THEN [c1 EXCEPT !.timers = clearTimeout(c1.timers, c1.reconnectTimeoutRef),
                      !.reconnectTimeoutRef = Null]
      ELSE c1

\* ShouldReconnect without the test of reconnectTimeoutRef.current.
ShouldReconnectUnguarded(en, ref, code) ==
  en /\ code # NormalClosure

\* The condition under which ws.onclose schedules a reconnect: en is the
\* enabled value the handler's closure captured, ref is reconnectTimeoutRef.current.
ShouldReconnect(en, ref, code) ==
  en /\ ref = Null /\ code # NormalClosure

\* ws.onclose of socket s with event.code = code.
onclose(c, s, code) ==
  LET c1 == [c EXCEPT !.isConnectedRef = FALSE, !.wsRef = Null]
      en == c.probes[s].en
  IN  IF ShouldReconnect(en, c1.reconnectTimeoutRef, code)
      THEN [c1 EXCEPT !.timers[NextTimer(c1)] =
                        [st |-> "pending", en |-> en, hit |-> FALSE],
                      !.reconnectTimeoutRef = NextTimer(c1)]
      ELSE c1

\* ws.onerror giving the socket up as onclose does.
onerrorForgets(c) == [c EXCEPT !.isConnectedRef = FALSE, !.wsRef = Null]

\* ws.onerror.
onerror(c) == [c EXCEPT !.isConnectedRef = FALSE]

\* viewer.setJointValue(name, value) of a ready viewer, on its pose: it throws
\* for a joint of ThrowingJoints and sets the joint otherwise.
setJointValue(pose, name, value) ==
  IF name \in ThrowingJoints THEN pose ELSE [pose EXCEPT ![name] = value]

\* forEach calling setJointValue twice per entry.
RECURSIVE forEachTwice(_, _, _)
forEachTwice(r, joints, i) ==
  IF i > Len(joints) THEN r
  ELSE forEachTwice([pose |-> setJointValue(r.pose, joints[i][1], joints[i][2]),
                     calls |-> r.calls \o <<joints[i], joints[i]>>],
                    joints, i + 1)

\* forEach with one try/catch around the whole loop: the first throw ends it.
RECURSIVE forEachAbort(_, _, _)
forEachAbort(r, joints, i) ==
  IF i > Len(joints) THEN r
  ELSE LET r1 == [pose |-> setJointValue(r.pose, joints[i][1], joints[i][2]),
                  calls |-> Append(r.calls, joints[i])]
       IN  IF joints[i][1] \in ThrowingJoints THEN r1
           ELSE forEachAbort(r1, joints, i + 1)

\* Object.entries(joints).forEach(...) from entry i on; r is the pose and the
\* setJointValue calls made so far.  Each call sits in its own try/catch.
RECURSIVE forEach(_, _, _)
forEach(r, joints, i) ==
  IF i > Len(joints) THEN r
  ELSE forEach([pose |-> setJointValue(r.pose, joints[i][1], joints[i][2]),
                calls |-> Append(r.calls, joints[i])],
               joints, i + 1)

\* updateJointValues without the test of the viewer.
updateJointValuesUnguarded(v, joints) ==
  LET r == forEach([pose |-> v.pose, calls |-> <<>>], joints, 1)
  IN  [viewer |-> [v EXCEPT !.pose = r.pose], calls |-> r.calls]

\* updateJointValues(joints) with viewerRef.current = v: the viewer after it
\* and the setJointValue calls made, in order.
updateJointValues(v, joints) ==
  IF v.st # "ready" THEN [viewer |-> v, calls |-> <<>>]
  ELSE LET r == forEach([pose |-> v.pose, calls |-> <<>>], joints, 1)
       IN  [viewer |-> [v EXCEPT !.pose = r.pose], calls |-> r.calls]

\* ws.onmessage treating a JSON.parse failure as fatal: it gives the
\* connection up.
onmessageParseFatal(c, v, frame) ==
  IF frame.kind = "json" /\ frame.type = "joint_update" /\ frame.has
  THEN LET u == updateJointValues(v, frame.joints)
       IN  [c |-> c, viewer |-> u.viewer, calls |-> u.calls]
  ELSE IF frame.kind = "garbage"
  THEN [c |-> [c EXCEPT !.sockets = IF c.wsRef # Null
                                    THEN close(c.sockets, c.wsRef)
                                    ELSE c.sockets,
                        !.wsRef = Null,
                        !.isConnectedRef = FALSE],
        viewer |-> v, calls |-> <<>>]
  ELSE [c |-> c, viewer |-> v, calls |-> <<>>]

\* ws.onmessage discarding a frame whose timestamp is not the latest one a
\* frame can carry.
onmessageStale(c, v, frame) ==
  IF frame.kind = "json" /\ frame.type = "joint_update" /\ frame.has
     /\ \A t \in Stamps : frame.ts = 0 \/ t <= frame.ts
  THEN LET u == updateJointValues(v, frame.joints)
       IN  [c |-> c, viewer |-> u.viewer, calls |-> u.calls]
  ELSE [c |-> c, viewer |-> v, calls |-> <<>>]

\* ws.onmessage treating a joint_update without joints as fatal: it gives the
\* connection up.
onmessageJointsFatal(c, v, frame) ==
  IF frame.kind = "json" /\ frame.type = "joint_update" /\ frame.has
  THEN LET u == updateJointValues(v, frame.joints)
       IN  [c |-> c, viewer |-> u.viewer, calls |-> u.calls]
  ELSE IF frame.kind = "json" /\ frame.type = "joint_update"
  THEN [c |-> [c EXCEPT !.sockets = IF c.wsRef # Null
                                    THEN close(c.sockets, c.wsRef)
                                    ELSE c.sockets,
                        !.wsRef = Null,
                        !.isConnectedRef = FALSE],
        viewer |-> v, calls |-> <<>>]
  ELSE [c |-> c, viewer |-> v, calls |-> <<>>]

\* ws.onmessage without the test of data.type.
onmessageAnyType(c, v, frame) ==
  IF frame.kind = "json" /\ frame.has
  THEN LET u == updateJointValues(v, frame.joints)
       IN  [c |-> c, viewer |-> u.viewer, calls |-> u.calls]
  ELSE [c |-> c, viewer |-> v, calls |-> <<>>]

\* ws.onmessage with event.data = frame: the hook state, the viewer and the
\* setJointValue calls made.  A JSON.parse failure is caught and logged.
onmessage(c, v, frame) ==
  IF frame.kind = "json" /\ frame.type = "joint_update" /\ frame.has
  THEN LET u == updateJointValues(v, frame.joints)
       IN  [c |-> c, viewer |-> u.viewer, calls |-> u.calls]
  ELSE [c |-> c, viewer |-> v, calls |-> <<>>]

\* The callback of timer t: connectWebSocket of the closure that set it.
timerCallback(c, t) == connectWebSocket(c, c.timers[t].en, t)

\* disconnect() forgetting the timer without clearTimeout.
disconnectNoClear(c) ==
  LET c1 == [c EXCEPT !.reconnectTimeoutRef = Null]
      c2 == IF c1.wsRef # Null
            THEN [c1 EXCEPT !.sockets = close(c1.sockets, c1.wsRef),
                            !.wsRef = Null]
            ELSE c1
  IN  [c2 EXCEPT !.isConnectedRef = FALSE]

\* disconnect() closing the socket without forgetting it.
disconnectKeepRef(c) ==
  LET c1 == IF c.reconnectTimeoutRef # Null
            THEN [c EXCEPT !.timers = clearTimeout(c.timers, c.reconnectTimeoutRef),
                           !.reconnectTimeoutRef = Null]
            ELSE c
      c2 == IF c1.wsRef # Null
            THEN [c1 EXCEPT !.sockets = close(c1.sockets, c1.wsRef)]
            ELSE c1
  IN  [c2 EXCEPT !.isConnectedRef = FALSE]

\* disconnect().
disconnect(c) ==
  LET c1 == IF c.reconnectTimeoutRef # Null
            THEN [c EXCEPT !.timers = clearTimeout(c.timers, c.reconnectTimeoutRef),
                           !.reconnectTimeoutRef = Null]
            ELSE c
      c2 == IF c1.wsRef # Null
            THEN [c1 EXCEPT !.sockets = close(c1.sockets, c1.wsRef),
                            !.wsRef = Null]
            ELSE c1
  IN  [c2 EXCEPT !.isConnectedRef = FALSE]

\* A render of the hook: the value it returns as isConnected is
\* isConnectedRef.current read during the render.
render(c) == [c EXCEPT !.isConnected = c.isConnectedRef]

\* ------------------------------------------------------ history bookkeeping
\* What a disconnect() call overtakes: the probes in flight and the timers
\* pending when it is called.
MarkStop(c) ==
  [c EXCEPT !.stopped = TRUE,
            !.probes = [i \in Ids |->
               IF c.probes[i].st = "inflight"
               THEN [c.probes[i] EXCEPT !.cancelled = TRUE] ELSE c.probes[i]],
            !.timers = [t \in TimerIds |->
               IF c.timers[t].st = "pending"
               THEN [c.timers[t] EXCEPT !.hit = TRUE] ELSE c.timers[t]]]

\* disconnect(), recorded.
Stop(c) == disconnect(MarkStop(c))

\* connectWebSocket called by the owner, recorded: a call that passes the
\* enabled guard is a new start.
Start(c, en) ==
  LET d == connectWebSocket(c, en, Null)
  IN  IF en THEN [d EXCEPT !.stopped = FALSE] ELSE d

\* A call of connectWebSocket that issues a probe needs an attempt left.
CanConnect(c, en) == en => NextId(c) \in Ids

Op(o, i, k) ==
  [op |-> o, id |-> i, code |-> k, wasOpen |-> FALSE, byServer |-> FALSE,
   refHeld |-> FALSE, frame |-> NoFrame, calls |-> <<>>, changed |-> FALSE]

\* Attempt i is over (its probe failed, its socket could not be constructed,
\* or its socket's close event was delivered): nothing reads its history again, so it is dropped.
Retire(c, i) ==
  [c EXCEPT !.probes[i] = [NoProbe EXCEPT !.st = c.probes[i].st],
            !.sockets[i].opened = FALSE]

\* A frame the handler hands to updateJointValues.
Valid(frame) == frame.kind = "json" /\ frame.type = "joint_update" /\ frame.has

\* Why a frame delivered while the viewer is v is not applied in full
\* ("none": it is, or it is not a joint update at all).
Glitch(v, frame) ==
  IF frame.kind = "garbage" THEN "badjson"
  ELSE IF ~Valid(frame) THEN "none"
  ELSE IF v.st # "ready" THEN "noviewer"
  ELSE IF \E i \in 1..Len(frame.joints) : frame.joints[i][1] \in ThrowingJoints
       THEN "threw"
  ELSE "none"

\* ------------------------------------------------------------- vocabulary
LiveSockets == {s \in Ids : sockets[s].st \in LiveStates}
InflightProbes == {p \in Ids : probes[p].st = "inflight"}
PendingTimers == {t \in TimerIds : timers[t].st = "pending"}

\* A connection attempt is under way: a probe in flight, or a socket
\* connecting or open.
Busy == InflightProbes # {} \/ LiveSockets # {}

\* Nothing is under way and nothing is scheduled.
Idle == ~Busy /\ PendingTimers = {}

\* ------------------------------------------------------------- the actions
\* The lifecycle effect of the first render.
Mount ==
  /\ phase = "init"
  /\ CanConnect(Cur, enabled)
  /\ phase' = "mounted"
  /\ Set(IF enabled THEN Start(Cur, enabled) ELSE Stop(Cur))
  /\ last' = Op("mount", Null, 0)
  /\ UNCHANGED <<test, websocketUrl, enabled, dispatching, viewer, heard, newest>>

\* The owner re-renders with the enabled prop flipped: the hook renders, the
\* previous effect's cleanup runs disconnect(), then the new effect runs.
SetEnabled ==
  /\ phase = "mounted"
  /\ dispatching = Null
  /\ CanConnect(Cur, ~enabled)
  /\ enabled' = ~enabled
  /\ Set(IF enabled' THEN Start(Stop(render(Cur)), enabled')
         ELSE Stop(Stop(render(Cur))))
  /\ last' = Op(IF enabled' THEN "enable" ELSE "disable", Null, 0)
  /\ UNCHANGED <<test, websocketUrl, phase, dispatching, viewer, heard, newest>>

\* The owner re-renders for a reason of its own (its state or props other
\* than enabled changed): the hook renders, no effect runs.
Render ==
  /\ phase = "mounted"
  /\ dispatching = Null
  /\ Set(render(Cur))
  /\ last' = Op("render", Null, 0)
  /\ UNCHANGED <<test, websocketUrl, phase, enabled, dispatching, viewer, heard, newest>>

\* The owner unmounts: the effect's cleanup runs disconnect().
Unmount ==
  /\ phase = "mounted"
  /\ dispatching = Null
  /\ phase' = "unmounted"
  /\ Set(Stop(Cur))
  /\ last' = Op("unmount", Null, 0)
  /\ UNCHANGED <<test, websocketUrl, enabled, dispatching, viewer, heard, newest>>

\* The owner calls the returned reconnect (connectWebSocket of the latest render).
Reconnect ==
  /\ phase = "mounted"
  /\ dispatching = Null
  /\ CanConnect(Cur, enabled)
  /\ Set(Start(Cur, enabled))
  /\ last' = Op("reconnect", Null, 0)
  /\ UNCHANGED <<test, websocketUrl, phase, enabled, dispatching, viewer, heard, newest>>

\* The owner calls the returned disconnect.
Disconnect ==
  /\ phase = "mounted"
  /\ dispatching = Null
  /\ Set(Stop(Cur))
  /\ last' = Op("disconnect", Null, 0)
  /\ UNCHANGED <<test, websocketUrl, phase, enabled, dispatching, viewer, heard, newest>>

\* The name, in the history, of a probe settling with each outcome.
ProbeOp ==
  [o \in ProbeOutcomes |->
     CASE o = "ok" -> "probe_ok"
       [] o = "status" -> "probe_status"
       [] o = "rejected" -> "probe_rejected"
       [] o = "badbody" -> "probe_badbody"]
ProbeFailedOps == {ProbeOp[o] : o \in ProbeOutcomes \ {"ok"}}

\* The health probe of attempt p settles and its continuation runs.
ProbeResolve(p, outcome) ==
  /\ dispatching = Null
  /\ probes[p].st = "inflight"
  /\ LET d == probeContinuation(Cur, p, testServerConnection(outcome), websocketUrl)
     IN  Set(IF d.sockets[p].st = "none" THEN Retire(d, p) ELSE d)
  /\ last' = Op(ProbeOp[outcome], p, 0)
  /\ UNCHANGED <<test, websocketUrl, phase, enabled, dispatching, viewer, heard, newest>>

\* Socket s opens.
OnOpen(s) ==
  /\ dispatching = Null
  /\ sockets[s].st = "CONNECTING"
  /\ Set(onopen([Cur EXCEPT !.sockets[s] = [st |-> "OPEN", opened |-> TRUE]]))
  /\ last' = [Op("open", s, 0) EXCEPT
                !.refHeld = (reconnectTimeoutRef \in PendingTimers)]
  /\ UNCHANGED <<test, websocketUrl, phase, enabled, dispatching, viewer, heard, newest>>

\* The connection of socket s fails: the browser sets it CLOSED and fires the
\* error event; the close event follows in the same task (OnClose).
OnError(s) ==
  /\ dispatching = Null
  /\ sockets[s].st \in {"CONNECTING", "OPEN", "CLOSING"}
  /\ Set(onerror([Cur EXCEPT !.sockets[s].st = "CLOSED"]))
  /\ dispatching' = s
  /\ last' = Op("error", s, 0)
  /\ UNCHANGED <<test, websocketUrl, phase, enabled, viewer, heard, newest>>

\* The close event of socket s: after its error event, with code 1006; or,
\* for a socket that had opened, at the end of a close the server or close()
\* began, with a clean code.
OnClose(s, code) ==
  /\ \/ /\ dispatching = s
        /\ code = AbnormalClosure
     \/ /\ dispatching = Null
        /\ sockets[s].st \in {"OPEN", "CLOSING"}
        /\ sockets[s].opened
        /\ code \in CleanCodes
  /\ ShouldReconnect(probes[s].en, reconnectTimeoutRef, code)
       => NextTimer(Cur) \in TimerIds
  /\ Set(Retire(onclose([Cur EXCEPT !.sockets[s].st = "CLOSED"], s, code), s))
  /\ dispatching' = Null
  /\ last' = [Op("close", s, code) EXCEPT !.wasOpen = sockets[s].opened,
                                          !.byServer = (sockets[s].st = "OPEN"),
                                          !.refHeld = (reconnectTimeoutRef # Null)]
  /\ heard' = [heard EXCEPT ![s] = "none"]
  /\ newest' = 0
  /\ UNCHANGED <<test, websocketUrl, phase, enabled, viewer>>

\* Reconnect timer t fires, ReconnectDelay ms after it was set.
TimerFire(t) ==
  /\ dispatching = Null
  /\ timers[t].st = "pending"
  /\ CanConnect(Cur, timers[t].en)
  /\ Set(timerCallback([Cur EXCEPT !.timers[t].st = "fired"], t))
  /\ last' = Op("timer", t, 0)
  /\ UNCHANGED <<test, websocketUrl, phase, enabled, dispatching, viewer, heard, newest>>

\* A message event on socket s with data frame; the browser fires it only
\* while the socket is OPEN.
OnMessage(s, frame) ==
  /\ dispatching = Null
  /\ sockets[s].st = "OPEN"
  /\ LET r == onmessage(Cur, viewer, frame)
     IN  /\ Set(r.c)
         /\ viewer' = r.viewer
         /\ last' = [Op("message", s, 0) EXCEPT !.frame = frame,
                                                !.calls = r.calls,
                                                !.changed = (r.viewer # viewer)]
  /\ heard' = IF Glitch(viewer, frame) = "none" THEN heard
              ELSE [heard EXCEPT ![s] = Glitch(viewer, frame)]
  /\ newest' = IF frame.ts > newest THEN frame.ts ELSE newest
  /\ UNCHANGED <<test, websocketUrl, phase, enabled, dispatching>>

\* The owner's viewer element comes, goes, or gains or loses setJointValue
\* (UrdfViewer stores it in viewerRef.current once it has created it).
ViewerChange(st) ==
  /\ dispatching = Null
  /\ viewer.st # st
  /\ viewer' = [st |-> st, pose |-> IF st = "absent" THEN NoPose ELSE viewer.pose]
  /\ last' = Op("viewer", Null, 0)
  /\ UNCHANGED <<test, websocketUrl, phase, enabled, wsRef, reconnectTimeoutRef,
                 isConnectedRef, isConnected,
                 probes, sockets, timers, dispatching, heard, newest, stopped>>

\* What the hook's variables are while only the WebSocketTest component runs.
HookIdle ==
  UNCHANGED <<websocketUrl, phase, enabled, wsRef, reconnectTimeoutRef,
              isConnectedRef, isConnected, probes, sockets, timers,
              dispatching, viewer, heard, newest, stopped>>

\* The user presses Connect (enabled while the render shows not connected).
TestConnect ==
  /\ test.phase = "mounted"
  /\ ~test.shown.isConnected
  /\ \E i \in TestIds :
       /\ test.fetches[i] = "none"
       /\ \A j \in TestIds : test.fetches[j] = "none" => i <= j
       /\ test' = testConnect(test, i)
       /\ last' = Op("test_connect", i, 0)
  /\ HookIdle

\* The health request of connect() call i settles.
TestFetchSettled(i, json) ==
  /\ test.fetches[i] = "inflight"
  /\ test' = testFetchSettled(test, i, json)
  /\ last' = Op("test_fetch", i, 0)
  /\ HookIdle

\* Socket i of the component opens.
TestOnOpen(i) ==
  /\ test.sockets[i].st = "CONNECTING"
  /\ test' = testOnopen([test EXCEPT !.sockets[i].st = "OPEN"], i)
  /\ last' = Op("test_open", i, 0)
  /\ HookIdle

\* The close event of socket i of the component (after a failure, a close by
\* the server, or the end of a close() the component began).
TestOnClose(i) ==
  /\ test.sockets[i].st \in {"CONNECTING", "OPEN", "CLOSING"}
  /\ test' = testOnclose([test EXCEPT !.sockets[i].st = "CLOSED"], i)
  /\ last' = Op("test_close", i, 0)
  /\ HookIdle

\* React re-renders the component after a state update.
TestCommit ==
  /\ test.phase = "mounted"
  /\ test.shown # [ws |-> test.ws, isConnected |-> test.isConnected]
  /\ test' = testCommit(test)
  /\ last' = Op("test_render", Null, 0)
  /\ HookIdle

\* The user presses Disconnect (enabled while the render shows connected).
TestDisconnect ==
  /\ test.phase = "mounted"
  /\ test.shown.isConnected
  /\ test' = testDisconnect(test)
  /\ last' = Op("test_disconnect", Null, 0)
  /\ HookIdle

\* The component unmounts: the effect's cleanup runs.
TestUnmount ==
  /\ test.phase = "mounted"
  /\ test' = [testCleanup(test) EXCEPT !.phase = "unmounted"]
  /\ last' = Op("test_unmount", Null, 0)
  /\ HookIdle

TestNext ==
  \/ TestConnect
  \/ \E i \in TestIds : \E json \in BOOLEAN : TestFetchSettled(i, json)
  \/ \E i \in TestIds : TestOnOpen(i)
  \/ \E i \in TestIds : TestOnClose(i)
  \/ TestCommit
  \/ TestDisconnect
  \/ TestUnmount

TestSpec == Init /\ [][TestNext]_vars

Next ==
  \/ Mount
  \/ SetEnabled
  \/ Unmount
  \/ Reconnect
  \/ Disconnect
  \/ \E p \in Ids : \E o \in ProbeOutcomes : ProbeResolve(p, o)
  \/ \E s \in Ids : OnOpen(s)
  \/ \E s \in Ids : OnError(s)
  \/ \E s \in Ids : \E code \in CloseCodes : OnClose(s, code)
  \/ \E t \in TimerIds : TimerFire(t)

Spec == Init /\ [][Next]_vars

\* The owner as UrdfViewer is: it only passes the enabled flag and unmounts,
\* and never calls the returned reconnect or disconnect.
LifecycleNext ==
  \/ Mount
  \/ SetEnabled
  \/ Unmount
  \/ \E p \in Ids : \E o \in ProbeOutcomes : ProbeResolve(p, o)
  \/ \E s \in Ids : OnOpen(s)
  \/ \E s \in Ids : OnError(s)
  \/ \E s \in Ids : \E code \in CloseCodes : OnClose(s, code)
  \/ \E t \in TimerIds : TimerFire(t)

LifecycleSpec == Init /\ [][LifecycleNext]_vars

\* The same owner, re-rendering also for reasons of its own.
RenderNext ==
  \/ LifecycleNext
  \/ Render

RenderSpec == Init /\ [][RenderNext]_vars

\* What the browser guarantees: a fetch settles, a pending timer fires, a
\* connecting socket opens or fails, and the close event follows the error
\* event.  The owner and the server owe nothing.
Fairness ==
  /\ \A p \in Ids : WF_vars(\E o \in ProbeOutcomes : ProbeResolve(p, o))
  /\ \A t \in TimerIds : WF_vars(TimerFire(t))
  /\ \A s \in Ids : WF_vars(sockets[s].st = "CONNECTING" /\ (OnOpen(s) \/ OnError(s)))
  /\ \A s \in Ids : WF_vars(dispatching = s /\ OnClose(s, AbnormalClosure))

\* The owner mounts the hook and then leaves the enabled flag as it is and
\* never calls disconnect(); it may start the client by hand, with the
\* returned reconnect, once the client has gone idle.
SteadyNext ==
  \/ Mount
  \/ Idle /\ Reconnect
  \/ \E p \in Ids : \E o \in ProbeOutcomes : ProbeResolve(p, o)
  \/ \E s \in Ids : OnOpen(s)
  \/ \E s \in Ids : OnError(s)
  \/ \E s \in Ids : \E code \in CloseCodes : OnClose(s, code)
  \/ \E t \in TimerIds : TimerFire(t)

SteadyFairSpec == Init /\ [][SteadyNext]_vars /\ Fairness

\* The same owner, with the server sending frames and the viewer coming and
\* going.
StreamNext ==
  \/ SteadyNext
  \/ \E s \in Ids : \E frame \in Frames : OnMessage(s, frame)
  \/ \E st \in ViewerStates : ViewerChange(st)

StreamSpec == Init /\ [][StreamNext]_vars

\* The same owner, with a server that sends timestamped updates of the
\* robot's joints, in any order of their timestamps.
OrderNext ==
  \/ SteadyNext
  \/ \E s \in Ids : \E frame \in StampedFrames : OnMessage(s, frame)
  \/ \E st \in ViewerStates : ViewerChange(st)

OrderSpec == Init /\ [][OrderNext]_vars

\* The same, with an owner that may also stop the client for good: it may
\* turn the enabled flag off (never on again) and unmount.
StopStreamNext ==
  \/ StreamNext
  \/ enabled /\ SetEnabled
  \/ Unmount

StopStreamSpec == Init /\ [][StopStreamNext]_vars

TypeOK ==
  /\ test.phase \in {"mounted", "unmounted"}
  /\ test.ws \in {Null} \cup TestIds
  /\ \A i \in TestIds : test.sockets[i].st \in
       {"none", "CONNECTING", "OPEN", "CLOSING", "CLOSED"}
  /\ websocketUrl \in Urls
  /\ phase \in {"init", "mounted", "unmounted"}
  /\ enabled \in BOOLEAN
  /\ wsRef \in {Null} \cup Ids
  /\ reconnectTimeoutRef \in {Null} \cup TimerIds
  /\ isConnectedRef \in BOOLEAN
  /\ isConnected \in BOOLEAN
  /\ \A i \in Ids : probes[i].st \in {"none", "inflight", "ok", "failed"}
  /\ \A i \in Ids : sockets[i].st \in {"none", "CONNECTING", "OPEN", "CLOSING", "CLOSED"}
  /\ \A t \in TimerIds : timers[t].st \in {"none", "pending", "fired", "cleared"}
  /\ dispatching \in {Null} \cup Ids
  /\ viewer.st \in ViewerStates
  /\ \A j \in RobotJoints : viewer.pose[j] \in JointValues \cup {0}
  /\ \A i \in Ids : heard[i] \in {"none", "badjson", "noviewer", "threw"}
  /\ newest \in Stamps \cup {0}
  /\ stopped \in BOOLEAN


\* ---------------------------------------------------------------- claims
\* A step leaves the hook's own state (refs, probes, sockets, timers) alone.
ClientUnchanged ==
  UNCHANGED <<wsRef, reconnectTimeoutRef, isConnectedRef, probes, sockets,
              timers, stopped>>

\* The last operation was the close event of a socket with a code other than
\* 1000, and the client is enabled and disconnect() has not overtaken it.
AbnormalCloseWhileRunning ==
  /\ last.op = "close"
  /\ last.code # NormalClosure
  /\ enabled
  /\ ~stopped

\* C1: whatever the toggles of the enabled flag, at most one socket of the
\* hook is connecting or open at any instant.
C1_AtMostOneLiveSocket == Cardinality(LiveSockets) <= 1

\* C2: a call of reconnect (connectWebSocket) while a probe is in flight or a
\* socket is connecting or open changes nothing: no second probe, no second
\* socket.
C2_ConnectWhileBusyIsNoOp ==
  [][(last'.op = "reconnect" /\ Busy) => (probes' = probes /\ sockets' = sockets)]_vars

\* C3: a probe that disconnect() overtook while it was in flight never leads
\* to a socket (so nothing of the client comes into existence after the stop).
C3_NoSocketFromCancelledProbe ==
  \A i \in Ids : probes[i].cancelled => sockets[i].st = "none"

\* C4: a close event delivered while the client is stopped or disabled
\* schedules no reconnect timer, whatever its code.
C4_NoReconnectWhenStopped ==
  [][(last'.op = "close" /\ (stopped \/ ~enabled))
       => PendingTimers' \subseteq PendingTimers]_vars

\* C5: a reconnect timer that was pending when disconnect() ran never fires
\* (it is cleared, and stays so), and no probe is issued on its behalf.
C5_StoppedTimerNeverFires ==
  \A t \in TimerIds :
    timers[t].hit =>
      /\ timers[t].st = "cleared"
      /\ \A p \in Ids : probes[p].st # "none" => probes[p].by # t

\* C5 witness: disconnect() has just run while a reconnect timer was pending.
C5_Witness ==
  /\ last.op \in {"disable", "unmount", "disconnect"}
  /\ \E t \in TimerIds : timers[t].hit /\ timers[t].st = "cleared"

\* C6: right after the close handler of a socket closed with a code other than
\* 1000 (client enabled, not stopped), a reconnect timer is pending; for the
\* first such close and for every later one.
C6_AbnormalCloseSchedulesTimer ==
  AbnormalCloseWhileRunning => PendingTimers # {}

\* C7: while the client stays enabled and not stopped and no probe fails, an
\* abnormal close is always followed by a further health probe: one issued by
\* the reconnect timer, or by the owner if it starts the client itself first
\* (or the model has no attempt left to give).
C7_RetryNeverStalls ==
  (AbnormalCloseWhileRunning /\ \A p \in Ids : probes[p].st # "failed")
    ~> \/ last.op \in {"timer", "reconnect", "enable"}
       \/ stopped
       \/ ~enabled
       \/ \E p \in Ids : probes[p].st = "failed"
       \/ NextId(Cur) \notin Ids

\* C8: when a socket that had reached OPEN closes with a code other than 1000
\* (client enabled, not stopped), the close handler issues no probe and leaves
\* a reconnect timer pending; the probe is issued when the timer fires.
C8_OpenedSocketReconnectsByTimer ==
  [][/\ (last'.op = "close" /\ last'.wasOpen /\ last'.code # NormalClosure
           /\ enabled /\ ~stopped)
        => (PendingTimers' # {} /\ InflightProbes' \subseteq InflightProbes)
     /\ last'.op = "timer"
        => \E p \in InflightProbes' \ InflightProbes : probes'[p].by = last'.id
    ]_vars

\* C9: at most one reconnect timer is outstanding at any moment.
C9_AtMostOnePendingTimer == Cardinality(PendingTimers) <= 1

\* C9 witness: a socket has just closed with a code other than 1000 while a
\* reconnect timer was already pending, and that timer is still the only one.
C9_Witness ==
  /\ last.op = "close"
  /\ last.code # NormalClosure
  /\ last.refHeld
  /\ Cardinality(PendingTimers) = 1

\* C10: after the server closes a socket with code 1000, the client does
\* nothing on its own: no reconnect timer is pending, and no attempt started
\* by a timer (a probe in flight, a socket connecting or open) is under way.
C10_NormalCloseIsTerminal ==
  (last.op = "close" /\ last.code = NormalClosure /\ last.byServer) =>
     /\ PendingTimers = {}
     /\ \A i \in InflightProbes \cup LiveSockets : probes[i].by = Null

\* C11: when the health probe fails (the server is not reachable, or it
\* answers with a non-success status), the attempt ends there: the failure
\* creates no socket (the attempt never has one), leaves the connected flag
\* and the socket reference as they were, and schedules no reconnect timer.
C11_FailedProbeEndsAttempt ==
  [][last'.op \in ProbeFailedOps =>
       /\ sockets' = sockets
       /\ sockets'[last'.id].st = "none"
       /\ wsRef' = wsRef
       /\ isConnectedRef' = isConnectedRef
       /\ timers' = timers
       /\ reconnectTimeoutRef' = reconnectTimeoutRef]_vars

\* C11 witness: a probe has just failed with a non-success status or a
\* rejection, and the client is left with no socket, not connected and with
\* no timer pending.
C11_Witness ==
  /\ last.op \in {"probe_status", "probe_rejected"}
  /\ probes[last.id].st = "failed"
  /\ LiveSockets = {}
  /\ ~isConnectedRef
  /\ PendingTimers = {}

\* The last operation ran disconnect() and nothing after it: the owner
\* disabled the hook (cleanup, then the effect: two calls in a row), unmounted
\* it, called disconnect(), or mounted it disabled (a call before any start).
JustDisconnected ==
  \/ last.op \in {"disable", "unmount", "disconnect"}
  \/ last.op = "mount" /\ ~enabled

\* C12: disconnect() is idempotent and leaves the client clean: in every
\* state, a second call changes nothing of what the first left, and after a
\* call (one or two in a row, before any start or not) the client holds no
\* socket reference and no timer id, no timer is pending and the connected
\* flag is false.
C12_DisconnectIdempotent ==
  /\ disconnect(disconnect(Cur)) = disconnect(Cur)
  /\ JustDisconnected =>
       /\ wsRef = Null
       /\ reconnectTimeoutRef = Null
       /\ ~isConnectedRef
       /\ PendingTimers = {}

\* C12 witness: the owner has just disabled a client that held a socket:
\* the cleanup's disconnect() closed it and the effect's disconnect() ran
\* right after.
C12_Witness ==
  /\ last.op = "disable"
  /\ \E s \in Ids : sockets[s].st = "CLOSING"
  /\ wsRef = Null
  /\ ~isConnectedRef

\* C13: a message event delivered while the client is stopped (disconnect()
\* has run and the owner has not started the client since) causes no
\* setJointValue call.
C13_NoJointUpdateAfterDisconnect ==
  (last.op = "message" /\ stopped) => last.calls = <<>>

\* The client is Connected: the socket it holds is open, and it is enabled
\* and not stopped.
Connected ==
  /\ wsRef # Null
  /\ sockets[wsRef].st = "OPEN"
  /\ enabled
  /\ ~stopped

\* C14: the connected flag is true exactly when the client is Connected.
C14_FlagIffConnected == isConnectedRef <=> Connected

\* C15: a message that is not valid JSON is dropped: no setJointValue call,
\* the viewer, the socket (still open) and the connected flag as they were;
\* and a valid joint_update that comes on the same socket after it is applied
\* (viewer ready): one setJointValue call per entry.
C15_BadJsonIsDropped ==
  [][last'.op = "message" =>
       /\ last'.frame.kind = "garbage" =>
            /\ ClientUnchanged
            /\ sockets'[last'.id].st = "OPEN"
            /\ viewer' = viewer
            /\ last'.calls = <<>>
       /\ (Valid(last'.frame) /\ heard[last'.id] = "badjson" /\ viewer.st = "ready")
            => last'.calls = last'.frame.joints]_vars

\* C15 witness: a joint_update has just been applied on a socket, still open
\* and flagged connected, whose previous glitch was a dropped non-JSON message.
C15_Witness ==
  /\ last.op = "message"
  /\ Valid(last.frame)
  /\ heard[last.id] = "badjson"
  /\ last.calls # <<>>
  /\ sockets[last.id].st = "OPEN"
  /\ isConnectedRef

\* C16: a frame that parses but whose type is not "joint_update" causes no
\* setJointValue call and changes nothing of the client or the viewer.
C16_OtherTypeIgnored ==
  [][(last'.op = "message" /\ last'.frame.kind = "json"
        /\ last'.frame.type # "joint_update")
       => /\ last'.calls = <<>>
          /\ viewer' = viewer
          /\ heard' = heard
          /\ ClientUnchanged]_vars

\* C16 witness: a frame of another type that carried a joint has just been
\* delivered to a client whose viewer is ready, and the viewer shows nothing.
C16_Witness ==
  /\ last.op = "message"
  /\ last.frame.type = "status"
  /\ last.frame.has
  /\ last.frame.joints # <<>>
  /\ viewer.st = "ready"
  /\ viewer.pose = NoPose

\* C17: for a valid joint_update delivered while the viewer is ready, the
\* setJointValue calls are exactly the entries of joints, each once with its
\* name and value, in the order of the object's keys whatever that order is.
C17_OneCallPerEntry ==
  [][(last'.op = "message" /\ Valid(last'.frame) /\ viewer.st = "ready")
       => last'.calls = last'.frame.joints]_vars

\* C17 witness: a frame with two joints, "lift" before "pan", has just been
\* applied.
C17_Witness ==
  /\ last.op = "message"
  /\ Valid(last.frame)
  /\ Len(last.frame.joints) = 2
  /\ last.frame.joints[1][1] = "lift"
  /\ last.frame.joints[2][1] = "pan"
  /\ Len(last.calls) = 2

\* C18: a valid joint_update delivered while the viewer is absent or has no
\* setJointValue does nothing (no call, viewer, socket and flag as they
\* were); and a valid frame that comes on the same socket once the viewer is
\* ready is applied.
C18_NoViewerNoUpdate ==
  [][(last'.op = "message" /\ Valid(last'.frame)) =>
       /\ viewer.st # "ready" =>
            /\ last'.calls = <<>>
            /\ viewer' = viewer
            /\ ClientUnchanged
            /\ sockets'[last'.id].st = "OPEN"
       /\ (viewer.st = "ready" /\ heard[last'.id] = "noviewer")
            => last'.calls = last'.frame.joints]_vars

\* C18 witness: a joint_update has just been applied on a socket whose
\* previous glitch was a frame that found no ready viewer.
C18_Witness ==
  /\ last.op = "message"
  /\ Valid(last.frame)
  /\ heard[last.id] = "noviewer"
  /\ last.calls # <<>>
  /\ sockets[last.id].st = "OPEN"

\* C19: when setJointValue throws for a joint of a frame (or did for one of
\* an earlier frame of the socket), every joint of the frame that the viewer
\* accepts is set to the frame's value, and the socket and the flag are left
\* as they were.
C19_ThrowingJointIsSkipped ==
  [][(last'.op = "message" /\ Valid(last'.frame) /\ viewer.st = "ready"
        /\ "threw" \in {heard[last'.id], Glitch(viewer, last'.frame)})
       => /\ \A i \in 1..Len(last'.frame.joints) :
               last'.frame.joints[i][1] \in RobotJoints
                 => viewer'.pose[last'.frame.joints[i][1]] = last'.frame.joints[i][2]
          /\ ClientUnchanged
          /\ sockets'[last'.id].st = "OPEN"]_vars

\* C19 witness: a frame whose first joint made setJointValue throw and whose
\* second joint is one of the robot's has just been handled, and the viewer
\* shows the second joint's value.
C19_Witness ==
  /\ last.op = "message"
  /\ Valid(last.frame)
  /\ Len(last.frame.joints) = 2
  /\ last.frame.joints[1][1] \in ThrowingJoints
  /\ last.frame.joints[2][1] \in RobotJoints
  /\ viewer.pose[last.frame.joints[2][1]] = last.frame.joints[2][2]
  /\ sockets[last.id].st = "OPEN"

\* C20: the running state tracks the enabled flag: a change from true to
\* false runs disconnect() (no socket held, no timer held or pending, flag
\* false), a change from false to true issues a health probe, and while the
\* flag is false no step issues a probe and the client holds no socket and
\* no timer.
C20_RunningTracksEnabled ==
  [][/\ last'.op = "disable" =>
          /\ wsRef' = Null
          /\ reconnectTimeoutRef' = Null
          /\ PendingTimers' = {}
          /\ ~isConnectedRef'
     /\ last'.op = "enable" => InflightProbes' \ InflightProbes # {}
     /\ (phase' = "mounted" /\ ~enabled') =>
          /\ InflightProbes' \subseteq InflightProbes
          /\ wsRef' = Null
          /\ reconnectTimeoutRef' = Null
    ]_vars

\* C21: a socket comes into existence only in the step in which the health
\* probe of its own attempt succeeds, whether the owner or a reconnect timer
\* started the attempt.
C21_ProbeBeforeSocket ==
  [][\A i \in Ids :
       (sockets[i].st = "none" /\ sockets'[i].st # "none")
         => /\ probes[i].st = "inflight"
            /\ probes'[i].st = "ok"
            /\ last'.op = "probe_ok"
            /\ last'.id = i]_vars

\* C21 witness: the probe of an attempt started by a reconnect timer has just
\* succeeded and the attempt's socket is connecting.
C21_Witness ==
  /\ last.op = "probe_ok"
  /\ probes[last.id].by # Null
  /\ probes[last.id].st = "ok"
  /\ sockets[last.id].st = "CONNECTING"

\* C22: an error event sets the connected flag to false and changes nothing
\* else of the client (the socket itself is closed by the browser): no timer,
\* no change of the socket reference, no probe; and a reconnect timer is only
\* ever scheduled by a close event.
C22_ErrorOnlyClearsFlag ==
  [][/\ last'.op = "error" =>
          /\ ~isConnectedRef'
          /\ timers' = timers
          /\ reconnectTimeoutRef' = reconnectTimeoutRef
          /\ wsRef' = wsRef
          /\ probes' = probes
          /\ \A i \in Ids \ {last'.id} : sockets'[i] = sockets[i]
     /\ PendingTimers' \ PendingTimers # {} => last'.op = "close"
    ]_vars

\* C22 witness: the error event of the open socket the client holds has just
\* been handled: the flag is false, the reference still holds the socket and
\* no timer is pending (the close event has not been delivered yet).
C22_Witness ==
  /\ last.op = "error"
  /\ dispatching = last.id
  /\ sockets[last.id].opened
  /\ wsRef = last.id
  /\ ~isConnectedRef
  /\ PendingTimers = {}

\* C23: right after the open handler of a socket, no reconnect timer is
\* pending and reconnectTimeoutRef is empty.
C23_OpenClearsTimer ==
  last.op = "open" => (PendingTimers = {} /\ reconnectTimeoutRef = Null)

\* C23 witness: a socket has just opened while a reconnect timer was pending,
\* and the open handler cleared it.
C23_Witness ==
  /\ last.op = "open"
  /\ last.refHeld
  /\ \E t \in TimerIds : timers[t].st = "cleared" /\ ~timers[t].hit
  /\ PendingTimers = {}

\* The value joint j has in the viewer after a frame with these joints is
\* applied to a viewer that showed old: the frame's value if it names j.
Written(joints, j, old) ==
  IF \E i \in 1..Len(joints) : joints[i][1] = j
  THEN joints[CHOOSE i \in 1..Len(joints) : joints[i][1] = j][2]
  ELSE old

\* C24: every valid frame that arrives while the viewer is ready is applied
\* on arrival, whatever its timestamp: after it, each joint the viewer
\* accepts shows the frame's value if the frame names it, and what it showed
\* before otherwise (so the value shown is always that of the most recently
\* arrived frame naming the joint).
C24_LastArrivedWins ==
  [][(last'.op = "message" /\ Valid(last'.frame) /\ viewer.st = "ready")
       => \A j \in RobotJoints :
            viewer'.pose[j] = Written(last'.frame.joints, j, viewer.pose[j])]_vars

\* C24 witness: a frame with an older timestamp than one delivered before it
\* on the socket has just arrived and changed the viewer's pose, which shows
\* the frame's values.
C24_Witness ==
  /\ last.op = "message"
  /\ Valid(last.frame)
  /\ last.frame.ts # 0
  /\ last.frame.ts < newest
  /\ last.changed
  /\ \A i \in 1..Len(last.frame.joints) :
       viewer.pose[last.frame.joints[i][1]] = last.frame.joints[i][2]

\* C25: a frame of type "joint_update" whose joints field is missing or null
\* is dropped: no setJointValue call, the viewer, the socket (still open) and
\* the connected flag as they were.
C25_NoJointsIsDropped ==
  [][(last'.op = "message" /\ last'.frame.kind = "json"
        /\ last'.frame.type = "joint_update" /\ ~last'.frame.has)
       => /\ last'.calls = <<>>
          /\ viewer' = viewer
          /\ ClientUnchanged
          /\ sockets'[last'.id].st = "OPEN"]_vars

\* C25 witness: a joint_update whose joints field is null has just been
\* delivered to a connected client with a ready viewer.
C25_Witness ==
  /\ last.op = "message"
  /\ last.frame.kind = "json"
  /\ last.frame.type = "joint_update"
  /\ ~last.frame.has
  /\ last.frame.nul
  /\ viewer.st = "ready"
  /\ sockets[last.id].st = "OPEN"
  /\ isConnectedRef

\* C26: a health probe answered with a success status and a body that is not
\* JSON is a failed probe: the attempt ends failed, with no socket, and the
\* step schedules no reconnect timer.
C26_UnreadableBodyFailsProbe ==
  [][last'.op = "probe_badbody" =>
       /\ probes'[last'.id].st = "failed"
       /\ sockets'[last'.id].st = "none"
       /\ sockets' = sockets
       /\ PendingTimers' \subseteq PendingTimers
       /\ reconnectTimeoutRef' = reconnectTimeoutRef]_vars

\* C26 witness: a probe has just ended with an unreadable body, and its
\* attempt has failed without a socket and without a timer.
C26_Witness ==
  /\ last.op = "probe_badbody"
  /\ probes[last.id].st = "failed"
  /\ sockets[last.id].st = "none"
  /\ PendingTimers = {}

\* C27: when the WebSocket constructor throws after a successful probe, the
\* attempt ends there: no socket, the connected flag false as before, the
\* socket reference and the timer reference as they were, and no reconnect
\* timer scheduled.
C27_ConstructorThrowAbsorbed ==
  [][(last'.op = "probe_ok" /\ websocketUrl = "rejected") =>
       /\ sockets' = sockets
       /\ sockets'[last'.id].st = "none"
       /\ wsRef' = wsRef
       /\ ~isConnectedRef'
       /\ isConnectedRef' = isConnectedRef
       /\ timers' = timers
       /\ reconnectTimeoutRef' = reconnectTimeoutRef]_vars

\* C27 witness: the probe of an attempt has just succeeded for a URL the
\* constructor rejects: the attempt has no socket and nothing is scheduled.
C27_Witness ==
  /\ last.op = "probe_ok"
  /\ websocketUrl = "rejected"
  /\ probes[last.id].st = "ok"
  /\ sockets[last.id].st = "none"
  /\ wsRef = Null
  /\ PendingTimers = {}

\* C28: every socket that is connecting or open is the one wsRef holds (so
\* that disconnect() closes every live socket, and no close event of another
\* socket has cleared the reference to it).
C28_LiveSocketIsHeld == \A s \in LiveSockets : wsRef = s

\* C29: the isConnected value the owner holds is the connected flag as it was
\* at the hook's latest render: it changes only in a step that renders the
\* hook (a re-render of the owner, or a change of the enabled prop), to the
\* flag's value at that render; no open, close or error event changes it.
C29_IsConnectedIsSnapshot ==
  [][/\ isConnected' # isConnected => last'.op \in {"render", "enable", "disable"}
     /\ last'.op \in {"render", "enable", "disable"} => isConnected' = isConnectedRef
     /\ last'.op \in {"open", "close", "error"} => isConnected' = isConnected
    ]_vars

\* C29 witness: a socket has just opened and set the flag, and the owner
\* still holds the value false of the last render.
C29_Witness ==
  /\ last.op = "open"
  /\ isConnectedRef
  /\ ~isConnected

\* C30: in the WebSocketTest component, once the component has unmounted no
\* socket of its connect() calls is connecting or open (each was closed), and
\* at no time are two of them open.
C30_TestSocketsClosedAtUnmount ==
  /\ test.phase = "unmounted" =>
       \A i \in TestIds : test.sockets[i].st \notin LiveStates
  /\ Cardinality({i \in TestIds : test.sockets[i].st = "OPEN"}) <= 1

==========================================================================
